---- MODULE Spec2Model ----
(***************************************************************************)
(* Topic-exchange publish/subscribe on top of RethinkDB changefeeds.       *)
(*                                                                         *)
(* Two libraries live in the repository:                                   *)
(*   rethinkmq.py  - AMQP binding keys compiled to regexes; the table has  *)
(*                   primary key 'topic' and publish is an upsert.         *)
(*   repubsub.py   - arbitrary filter functions; the table has the default *)
(*                   primary key and publish is update-then-insert.        *)
(*                                                                         *)
(* Strings are modelled as sequences of one-character strings, so that     *)
(* split, join, lstrip and the regex matcher work on characters.  The two  *)
(* regex fragments "[a-zA-Z]+" and "(?:\.[a-zA-Z]+)*" are kept as single   *)
(* tokens; their first characters are '[' and '(' (relevant for lstrip).   *)
(***************************************************************************)
EXTENDS Integers, Sequences, FiniteSets, TLC

(***************************************************************************)
(* Bounds                                                                  *)
(***************************************************************************)
MaxPatSegs == 3

MaxTopicSegs == 4

(***************************************************************************)
(* Characters                                                              *)
(***************************************************************************)
Letters == {"a", "b"}

BACKSLASH == "\\"

DOT == "."

ONE_WORD == "[a-zA-Z]+"

ANY_WORDS == "(?:\\.[a-zA-Z]+)*"

(***************************************************************************)
(* str.split('.'), ''.join, str.lstrip                                     *)
(***************************************************************************)
RECURSIVE split(_)
split(s) ==
    IF \A i \in 1..Len(s) : s[i] # DOT
    THEN <<s>>
    ELSE LET i == CHOOSE k \in 1..Len(s) :
                     s[k] = DOT /\ \A j \in 1..(k-1) : s[j] # DOT
         IN  <<SubSeq(s, 1, i-1)>> \o split(SubSeq(s, i+1, Len(s)))

RECURSIVE join(_)
join(parts) ==
    IF parts = <<>> THEN <<>> ELSE Head(parts) \o join(Tail(parts))

RECURSIVE lstrip(_, _)
lstrip(s, chars) ==
    IF s # <<>> /\ Head(s) \in chars THEN lstrip(Tail(s), chars) ELSE s

(***************************************************************************)
(* binding_key_to_regex: one fragment per section of the binding key       *)
(***************************************************************************)
section_to_regex(section) ==
    IF section = <<"*">> THEN <<BACKSLASH, DOT, ONE_WORD>>
    ELSE IF section = <<"#">> THEN <<ANY_WORDS>>
    ELSE <<BACKSLASH, DOT>> \o section

sections_of(pattern) ==
    LET parts == split(pattern)
    IN  [i \in 1..Len(parts) |-> section_to_regex(parts[i])]

binding_key_to_regex(pattern) ==
    <<"^">> \o lstrip(join(sections_of(pattern)), {BACKSLASH, DOT}) \o <<"$">>

(***************************************************************************)
(* r.row['topic'].match(regex): RE2 search of the regex in the string      *)
(***************************************************************************)
IsWord(s, from, to) ==
    /\ from <= to
    /\ to <= Len(s)
    /\ \A i \in from..to : s[i] \in Letters

RECURSIVE match_at(_, _, _, _)
match_at(re, i, s, j) ==
    IF i > Len(re) THEN TRUE
    ELSE IF re[i] = "^" THEN j = 1 /\ match_at(re, i+1, s, j)
    ELSE IF re[i] = "$" THEN j = Len(s) + 1 /\ match_at(re, i+1, s, j)
    ELSE IF re[i] = BACKSLASH
         THEN /\ i < Len(re)
              /\ j <= Len(s)
              /\ s[j] = re[i+1]
              /\ match_at(re, i+2, s, j+1)
    ELSE IF re[i] = DOT
         THEN j <= Len(s) /\ match_at(re, i+1, s, j+1)
    ELSE IF re[i] = ONE_WORD
         THEN \E k \in j..Len(s) :
                  IsWord(s, j, k) /\ match_at(re, i+1, s, k+1)
    ELSE IF re[i] = ANY_WORDS
         THEN \/ match_at(re, i+1, s, j)
              \/ /\ j <= Len(s)
                 /\ s[j] = DOT
                 /\ \E k \in (j+1)..Len(s) :
                        IsWord(s, j+1, k) /\ match_at(re, i, s, k+1)
    ELSE j <= Len(s) /\ s[j] = re[i] /\ match_at(re, i+1, s, j+1)

match(s, re) == \E start \in 1..(Len(s) + 1) : match_at(re, 1, s, start)


(***************************************************************************)
(* Bounds and inputs of the publish/subscribe state machine                *)
(***************************************************************************)
(* publish, bind, consume/subscribe and close calls in one run *)
MaxCalls == 4

Libs == {"rethinkmq", "repubsub"}

Publishers == {"p1", "p2"}

Queues == {"q1", "q2"}

(* sender.py: each sender process publishes the message it was given *)
message == [p \in Publishers |-> IF p = "p1" THEN "x" ELSE "y"]

(* Topic.__getitem__: name + '.' + subtopic_name *)
subtopic(name, subtopic_name) == name \o <<DOT>> \o subtopic_name

TopicNames == {<<"a">>, <<"b">>}

(* q1 = exchange.topic('a').queue(), q2 = exchange.queue() *)
QueueTopic == <<"a">>

Topics == TopicNames \cup {subtopic(<<"a">>, <<"b">>)}

(* sender.py <topic> <message>: a sender publishes to the topic it is given *)
SenderTopics ==
    [p \in Publishers |-> IF p = "p1" THEN Topics ELSE {<<"a">>}]

(* receiver.py <topic_pattern>...: the binding keys a receiver is given *)
BindingKeys ==
    [q \in Queues |-> IF q = "q1" THEN { <<"*", ".", "b">> }
                      ELSE { <<"a", ".", "#">>, <<"#", ".", "b">>, <<>> }]

(* repubsub filter functions, given by the set of topic keys they accept *)
FilterFuncs ==
    [q \in Queues |-> IF q = "q1" THEN {<<"a">>, <<"a", ".", "b">>}
                                  ELSE {<<"a", ".", "b">>, <<"b">>}]

(***************************************************************************)
(* State                                                                   *)
(***************************************************************************)
VARIABLES
    lib,          \* which library the processes import
    calls,        \* publish, bind, consume/subscribe and close calls so far
    tableExists,  \* the exchange's table exists on the server
    table,        \* the table's documents, in insertion order
    nonce,        \* number of _force_change values generated so far
    log,          \* the document writes the server applied, in order
    asserted,     \* Exchange._asserted of each process's Exchange
    requests,     \* answers to the table_create requests of each Exchange
    pubs,         \* the publish calls made so far
    pubpc,        \* position of each publisher inside Exchange.publish
    bindings,     \* Queue._bindings of each rethinkmq queue
    filter_func,  \* Queue.filter_func of each repubsub queue
    streams,      \* the generators returned by consume()/subscribe()
    binding_key,  \* pattern compiler: the binding key given
    topic_key,    \* pattern compiler: the topic the regex is tried on
    regex,        \* pattern compiler: the regex binding_key_to_regex returned
    matched,      \* pattern compiler: whether the topic matched the regex
    phase         \* pattern compiler: "off", "input", "compiled", "matched"

mqvars == <<lib, calls, tableExists, table, nonce, log, asserted, requests,
            pubs, pubpc, bindings, filter_func, streams>>

cvars == <<binding_key, topic_key, regex, matched, phase>>

vars == <<mqvars, cvars>>

Topic(name) == [kind |-> "Topic", name |-> name]

Key(pattern) == [kind |-> "str", value |-> pattern]

BindArgs(q) == {Key(k) : k \in BindingKeys[q]}

(* a bind that takes a Topic's name as the binding key *)
bind_name_only(_bindings, pattern) ==
    IF pattern.kind = "Topic"
    THEN Append(_bindings, pattern.name)
    ELSE Append(_bindings, pattern.value)

bind(_bindings, pattern) ==
    IF pattern.kind = "Topic"
    THEN Append(_bindings, pattern.name \o <<DOT, "#">>)
    ELSE Append(_bindings, pattern.value)

(* Queue.__init__(exchange, *patterns): binds the patterns given *)
RECURSIVE Queue(_)
Queue(patterns) ==
    IF patterns = <<>> THEN <<>>
    ELSE bind(Queue(SubSeq(patterns, 1, Len(patterns) - 1)),
              patterns[Len(patterns)])

(* Topic.queue(): a new queue that listens on this topic *)
queue(name) == Queue(<<Topic(name)>>)

Idle == 0

Count(seq, P(_)) == Cardinality({i \in 1..Len(seq) : P(seq[i])})

InitExchange ==
    /\ lib \in Libs
    /\ calls = 0
    /\ tableExists = FALSE
    /\ table = <<>>
    /\ nonce = 0
    /\ log = <<>>
    /\ asserted = [c \in Publishers \cup Queues |-> FALSE]
    /\ requests = [c \in Publishers \cup Queues |-> <<>>]
    /\ pubs = <<>>
    /\ pubpc = [p \in Publishers |-> Idle]
    /\ bindings = [q \in Queues |->
                      IF lib = "rethinkmq" /\ q = "q1"
                      THEN queue(QueueTopic) ELSE <<>>]
    /\ filter_func = [q \in Queues |->
                         IF lib = "repubsub" THEN FilterFuncs[q] ELSE {}]
    /\ streams = <<>>

Init ==
    /\ InitExchange
    /\ binding_key = <<>>
    /\ topic_key = <<>>
    /\ regex = <<>>
    /\ matched = FALSE
    /\ phase = "off"

(***************************************************************************)
(* The server: changefeeds                                                 *)
(***************************************************************************)
(* matchers = match(regexes[0]) | match(regexes[1]) | ...                  *)
RECURSIVE matchers(_, _)
matchers(regexes, topic) ==
    IF Len(regexes) = 1 THEN match(topic, Head(regexes))
    ELSE match(topic, Head(regexes)) \/ matchers(Tail(regexes), topic)

(* a feed that is not filtered *)
filter_clause_unfiltered(s, topic) == TRUE

(* the filter a stream's changefeed query carries; in rethinkmq            *)
(* `r.row != None and matchers` is Python's `and` of a query object, which  *)
(* evaluates to matchers                                                    *)
filter_clause(s, topic) ==
    IF lib = "rethinkmq" THEN matchers(s.regexes, topic)
                         ELSE topic \in s.filter_func

(* a feed that takes a notification only while its consumer has none left  *)
(* to read                                                                 *)
feed_when_idle(s, docs) ==
    LET msgs == [i \in 1..Len(docs) |->
                   [topic |-> docs[i].topic, payload |-> docs[i].payload,
                    w |-> Len(log) + i]]
    IN  IF s.state = "open" /\ s.buffer = <<>>
        THEN [s EXCEPT !.buffer =
                  SelectSeq(msgs, LAMBDA m : filter_clause(s, m.topic))]
        ELSE s

(* table.changes()['new_val'].filter(...): every open feed buffers, in     *)
(* write order, the new value of each written document its filter accepts  *)
feed(s, docs) ==
    LET msgs == [i \in 1..Len(docs) |->
                   [topic |-> docs[i].topic, payload |-> docs[i].payload,
                    w |-> Len(log) + i]]
    IN  IF s.state = "open"
        THEN [s EXCEPT !.buffer =
                  @ \o SelectSeq(msgs, LAMBDA m : filter_clause(s, m.topic))]
        ELSE s

(* a server that hands each write to one consumer only, the first open one *)
changes_competing(docs, k) ==
    /\ log' = log \o [i \in 1..Len(docs) |->
                        [topic |-> docs[i].topic, payload |-> docs[i].payload,
                         pub |-> k]]
    /\ streams' = [i \in 1..Len(streams) |->
                      IF \E j \in 1..(i - 1) : streams[j].state = "open"
                      THEN streams[i] ELSE feed(streams[i], docs)]

(* the server applies the document writes `docs` of publish call k *)
changes(docs, k) ==
    /\ log' = log \o [i \in 1..Len(docs) |->
                        [topic |-> docs[i].topic, payload |-> docs[i].payload,
                         pub |-> k]]
    /\ streams' = [i \in 1..Len(streams) |-> feed(streams[i], docs)]

(* r.table_create(...) as the server answers it: the table is created, or  *)
(* it exists already, or the request fails for another reason (`fault`)    *)
table_create(fault) ==
    IF fault THEN "error"
    ELSE IF tableExists THEN "already exists" ELSE "created"

(* a handler that swallows every error of table_create *)
reraise_never(result) == FALSE

(* except r.RqlRuntimeError: if 'already exists' not in rre.message: raise *)
reraise(result) == result \notin {"created", "already exists"}

(* an assert_table that sends table_create at every call *)
assert_table_per_call(c, fault) ==
    LET result == table_create(fault)
    IN  /\ requests' = [requests EXCEPT ![c] = Append(@, result)]
        /\ tableExists' = (tableExists \/ result = "created")
        /\ asserted' = [asserted EXCEPT ![c] = ~reraise(result)]

(* MQConnection.assert_table / Exchange.assert_table: an Exchange that has *)
(* not asserted its table yet sends table_create, and remembers the table  *)
(* once the request did not raise (repubsub's db_create before it is taken *)
(* to answer 'already exists')                                             *)
assert_table(c, fault) ==
    IF asserted[c]
    THEN UNCHANGED <<tableExists, asserted, requests>>
    ELSE LET result == table_create(fault)
         IN  /\ requests' = [requests EXCEPT ![c] = Append(@, result)]
             /\ tableExists' = (tableExists \/ result = "created")
             /\ asserted' = [asserted EXCEPT ![c] = ~reraise(result)]

(* a call that runs the method's code whatever assert_table did *)
raises_never(c, fault) == FALSE

(* the call ends with the exception assert_table lets through, before the  *)
(* method's own code runs                                                  *)
raises(c, fault) == ~asserted[c] /\ reraise(table_create(fault))

(***************************************************************************)
(* rethinkmq: Exchange.publish - insert(..., upsert=True) on primary key   *)
(* 'topic'                                                                 *)
(***************************************************************************)
(* a document without a regenerated _force_change *)
document_unmarked(topic, payload, marker) ==
    [topic |-> topic, payload |-> payload, force_change |-> 0]

(* _force_change is str(uuid.uuid4()) resp. random.random(): a value that  *)
(* differs from every value generated before, here the next number         *)
document(topic, payload, marker) ==
    [topic |-> topic, payload |-> payload, force_change |-> marker]

upsert(doc) ==
    IF \E i \in 1..Len(table) : table[i].topic = doc.topic
    THEN [i \in 1..Len(table) |->
             IF table[i].topic = doc.topic THEN doc ELSE table[i]]
    ELSE Append(table, doc)

MQPublish(p, topic, fault) ==
    /\ lib = "rethinkmq"
    /\ calls < MaxCalls
    /\ calls' = calls + 1
    /\ assert_table(p, fault)
    /\ IF raises(p, fault)
       THEN UNCHANGED <<table, nonce, log, pubs, streams>>
       ELSE LET payload == message[p]
                doc == document(topic, payload, nonce + 1)
                k == Len(pubs) + 1
            IN  /\ nonce' = nonce + 1
                /\ table' = upsert(doc)
                /\ pubs' = Append(pubs, [by |-> p, topic |-> topic,
                                         payload |-> payload, done |-> TRUE,
                                         nrec |-> Count(table,
                                             LAMBDA d : d.topic = topic)])
                /\ changes(IF table' = table THEN <<>> ELSE <<doc>>, k)
    /\ UNCHANGED <<lib, pubpc, bindings, filter_func, cvars>>

(***************************************************************************)
(* repubsub: Exchange.publish - update the documents of the topic, insert  *)
(* a new one when none was replaced                                        *)
(***************************************************************************)
(* an update that stops at the first document of the topic *)
update_first(topic, payload, marker) ==
    [i \in 1..Len(table) |->
        IF table[i].topic = topic
           /\ \A j \in 1..(i-1) : table[j].topic # topic
        THEN [table[i] EXCEPT !.payload = payload, !.force_change = marker]
        ELSE table[i]]

update(topic, payload, marker) ==
    [i \in 1..Len(table) |->
        IF table[i].topic = topic
        THEN [table[i] EXCEPT !.payload = payload, !.force_change = marker]
        ELSE table[i]]

(* a result that never reports a replaced document *)
replaced_none(old, new) == {}

replaced(old, new) == {i \in 1..Len(old) : old[i] # new[i]}

RECURSIVE written(_, _, _)
written(old, new, i) ==
    IF i > Len(old) THEN <<>>
    ELSE (IF old[i] # new[i] THEN <<new[i]>> ELSE <<>>)
         \o written(old, new, i + 1)

(* a publish that inserts after its update whatever the update replaced *)
PSPublishUpdate_then_insert(p, topic, fault) ==
    /\ lib = "repubsub"
    /\ pubpc[p] = Idle
    /\ calls < MaxCalls
    /\ calls' = calls + 1
    /\ assert_table(p, fault)
    /\ IF raises(p, fault)
       THEN UNCHANGED <<table, nonce, log, pubs, pubpc, streams>>
       ELSE LET payload == message[p]
                new == update(topic, payload, nonce + 1)
                k == Len(pubs) + 1
                result == Cardinality(replaced(table, new))
            IN  /\ nonce' = nonce + 1
                /\ table' = new
                /\ pubs' = Append(pubs, [by |-> p, topic |-> topic,
                                         payload |-> payload,
                                         done |-> FALSE,
                                         nrec |-> Count(table,
                                             LAMBDA d : d.topic = topic)])
                /\ pubpc' = [pubpc EXCEPT ![p] = k]
                /\ changes(written(table, new, 1), k)
    /\ UNCHANGED <<lib, bindings, filter_func, cvars>>

PSPublishUpdate(p, topic, fault) ==
    /\ lib = "repubsub"
    /\ pubpc[p] = Idle
    /\ calls < MaxCalls
    /\ calls' = calls + 1
    /\ assert_table(p, fault)
    /\ IF raises(p, fault)
       THEN UNCHANGED <<table, nonce, log, pubs, pubpc, streams>>
       ELSE LET payload == message[p]
                new == update(topic, payload, nonce + 1)
                k == Len(pubs) + 1
                result == Cardinality(replaced(table, new))
            IN  /\ nonce' = nonce + 1
                /\ table' = new
                /\ pubs' = Append(pubs, [by |-> p, topic |-> topic,
                                         payload |-> payload,
                                         done |-> (result # 0),
                                         nrec |-> Count(table,
                                             LAMBDA d : d.topic = topic)])
                /\ pubpc' = [pubpc EXCEPT ![p] =
                                 IF result = 0 THEN k ELSE Idle]
                /\ changes(written(table, new, 1), k)
    /\ UNCHANGED <<lib, bindings, filter_func, cvars>>

PSPublishInsert(p) ==
    /\ lib = "repubsub"
    /\ UNCHANGED calls
    /\ pubpc[p] # Idle
    /\ LET k == pubpc[p]
           doc == document(pubs[k].topic, pubs[k].payload, nonce + 1)
       IN  /\ nonce' = nonce + 1
           /\ table' = Append(table, doc)
           /\ pubs' = [pubs EXCEPT ![k].done = TRUE]
           /\ changes(<<doc>>, k)
    /\ pubpc' = [pubpc EXCEPT ![p] = Idle]
    /\ UNCHANGED <<lib, tableExists, asserted, requests, bindings,
                   filter_func, cvars>>

(***************************************************************************)
(* rethinkmq: Queue.bind, Queue.consume, Exchange.consume                  *)
(***************************************************************************)
(* a bind that also reaches the sequences consume() returned earlier *)
Bind_live(q, pattern) ==
    /\ lib = "rethinkmq"
    /\ calls < MaxCalls
    /\ calls' = calls + 1
    /\ bindings' = [bindings EXCEPT ![q] = bind(@, pattern)]
    /\ streams' = [i \in 1..Len(streams) |->
                      IF streams[i].queue = q /\ streams[i].state = "created"
                      THEN [streams[i] EXCEPT !.patterns = bind(@, pattern)]
                      ELSE streams[i]]
    /\ UNCHANGED <<lib, tableExists, table, nonce, log, asserted, requests,
                   pubs, pubpc, filter_func, cvars>>

Bind(q, pattern) ==
    /\ lib = "rethinkmq"
    /\ calls < MaxCalls
    /\ calls' = calls + 1
    /\ bindings' = [bindings EXCEPT ![q] = bind(@, pattern)]
    /\ UNCHANGED <<lib, tableExists, table, nonce, log, asserted, requests,
                   pubs, pubpc, filter_func, streams, cvars>>

(* a consume()/subscribe() that runs its changefeed query at the call *)
generator_eager(q, patterns, func) ==
    [queue |-> q,
     state |-> IF lib = "rethinkmq" /\ patterns = <<>>
               THEN "created" ELSE "open",
     patterns |-> patterns,
     filter_func |-> func,
     regexes |-> IF lib = "rethinkmq"
                 THEN [j \in 1..Len(patterns) |->
                          binding_key_to_regex(patterns[j])]
                 ELSE <<>>,
     opened |-> Len(log), openedPub |-> Len(pubs),
     buffer |-> <<>>, yielded |-> <<>>, closedAt |-> 0, dropped |-> <<>>]

generator(q, patterns, func) ==
    [queue |-> q, state |-> "created", patterns |-> patterns,
     filter_func |-> func, regexes |-> <<>>, opened |-> 0, openedPub |-> 0,
     buffer |-> <<>>, yielded |-> <<>>, closedAt |-> 0, dropped |-> <<>>]

(* Queue.consume(): the assert_table wrapper runs at the call, and when it *)
(* raises no generator is returned; the body of Exchange.consume is a      *)
(* generator and runs at the first pull                                    *)
Consume(q, fault) ==
    /\ lib = "rethinkmq"
    /\ calls < MaxCalls
    /\ calls' = calls + 1
    /\ assert_table(q, fault)
    /\ streams' = IF raises(q, fault) THEN streams
                  ELSE Append(streams, generator(q, bindings[q], {}))
    /\ UNCHANGED <<lib, table, nonce, log, pubs, pubpc, bindings,
                   filter_func, cvars>>

(* a consume that listens to '#' when it is given no pattern *)
consume_all(s) ==
    LET patterns == IF s.patterns = <<>> THEN << <<"#">> >> ELSE s.patterns
    IN  [s EXCEPT !.state = "open",
                  !.regexes = [j \in 1..Len(patterns) |->
                                  binding_key_to_regex(patterns[j])],
                  !.opened = Len(log),
                  !.openedPub = Len(pubs)]

(* Exchange.consume, from the first pull up to running the changefeed     *)
(* query: no patterns raises, otherwise one regex per pattern               *)
consume(s) ==
    IF s.patterns = <<>>
    THEN [s EXCEPT !.state = "raised"]
    ELSE [s EXCEPT !.state = "open",
                   !.regexes = [j \in 1..Len(s.patterns) |->
                                   binding_key_to_regex(s.patterns[j])],
                   !.opened = Len(log),
                   !.openedPub = Len(pubs)]

MQOpen(i) ==
    /\ UNCHANGED calls
    /\ lib = "rethinkmq"
    /\ i \in 1..Len(streams)
    /\ streams[i].state = "created"
    /\ streams' = [streams EXCEPT ![i] = consume(streams[i])]
    /\ UNCHANGED <<lib, tableExists, table, nonce, log, asserted, requests,
                   pubs, pubpc, bindings, filter_func, cvars>>

(***************************************************************************)
(* repubsub: Queue.subscribe, Exchange.subscribe                           *)
(***************************************************************************)
Subscribe(q) ==
    /\ lib = "repubsub"
    /\ calls < MaxCalls
    /\ calls' = calls + 1
    /\ streams' = Append(streams, generator(q, <<>>, filter_func[q]))
    /\ UNCHANGED <<lib, tableExists, table, nonce, log, asserted, requests,
                   pubs, pubpc, bindings, filter_func, cvars>>

(* a subscribe whose feed starts with the backlog of earlier writes *)
subscribe_backlog(s) ==
    [s EXCEPT !.state = "open", !.opened = Len(log), !.openedPub = Len(pubs),
              !.buffer = SelectSeq(
                  [w \in 1..Len(log) |-> [topic |-> log[w].topic,
                                          payload |-> log[w].payload,
                                          w |-> w]],
                  LAMBDA m : m.topic \in s.filter_func)]

(* Exchange.subscribe, from the first pull up to running full_query *)
subscribe(s) ==
    [s EXCEPT !.state = "open", !.opened = Len(log), !.openedPub = Len(pubs)]

(* the first pull: assert_table runs inside the generator, and when it     *)
(* raises the generator ends without having run full_query                 *)
PSOpen(i, fault) ==
    /\ UNCHANGED calls
    /\ lib = "repubsub"
    /\ i \in 1..Len(streams)
    /\ streams[i].state = "created"
    /\ assert_table(streams[i].queue, fault)
    /\ streams' = [streams EXCEPT ![i] =
                      IF raises(streams[i].queue, fault)
                      THEN [streams[i] EXCEPT !.state = "raised"]
                      ELSE subscribe(streams[i])]
    /\ UNCHANGED <<lib, table, nonce, log, pubs, pubpc, bindings,
                   filter_func, cvars>>

(***************************************************************************)
(* Both: the generator yields message['topic'], message['payload'] of the  *)
(* next buffered notification; closing it drops the feed and its buffer    *)
(***************************************************************************)
(* a generator that yields the newest buffered notification first *)
yield_newest(s) ==
    LET n == Len(s.buffer)
    IN  [s EXCEPT !.yielded = Append(@, [topic |-> s.buffer[n].topic,
                                         payload |-> s.buffer[n].payload,
                                         w |-> s.buffer[n].w]),
                  !.buffer = SubSeq(s.buffer, 1, n - 1)]

yield(s) ==
    [s EXCEPT !.yielded = Append(@, [topic |-> Head(s.buffer).topic,
                                     payload |-> Head(s.buffer).payload,
                                     w |-> Head(s.buffer).w]),
              !.buffer = Tail(@)]

(* a close that leaves the buffered notifications in place *)
close_keeping(s) ==
    [s EXCEPT !.state = "closed", !.regexes = <<>>,
              !.opened = 0, !.openedPub = 0, !.closedAt = Len(log)]

(* stopping the changefeed (or losing the connection) deletes the server's *)
(* buffer; closedAt and dropped record when, and which writes were lost    *)
close(s) ==
    [s EXCEPT !.state = "closed", !.buffer = <<>>, !.regexes = <<>>,
              !.opened = 0, !.openedPub = 0, !.closedAt = Len(log),
              !.dropped = [j \in 1..Len(s.buffer) |-> s.buffer[j].w]]

Pull(i) ==
    /\ UNCHANGED calls
    /\ i \in 1..Len(streams)
    /\ streams[i].state = "open"
    /\ streams[i].buffer # <<>>
    /\ streams' = [streams EXCEPT ![i] = yield(streams[i])]
    /\ UNCHANGED <<lib, tableExists, table, nonce, log, asserted, requests,
                   pubs, pubpc, bindings, filter_func, cvars>>

Close(i) ==
    /\ i \in 1..Len(streams)
    /\ streams[i].state = "open"
    /\ calls < MaxCalls
    /\ calls' = calls + 1
    /\ streams' = [streams EXCEPT ![i] = close(streams[i])]
    /\ UNCHANGED <<lib, tableExists, table, nonce, log, asserted, requests,
                   pubs, pubpc, bindings, filter_func, cvars>>

Next ==
    \/ \E p \in Publishers : \E t \in SenderTopics[p] :
           \E fault \in BOOLEAN : MQPublish(p, t, fault)
    \/ \E p \in Publishers : \E t \in SenderTopics[p] :
           \E fault \in BOOLEAN : PSPublishUpdate(p, t, fault)
    \/ \E p \in Publishers : PSPublishInsert(p)
    \/ \E q \in Queues : \E a \in BindArgs(q) : Bind(q, a)
    \/ \E q \in Queues : \E fault \in BOOLEAN : Consume(q, fault)
    \/ \E q \in Queues : Subscribe(q)
    \/ \E i \in 1..MaxCalls : MQOpen(i)
    \/ \E i \in 1..MaxCalls : \E fault \in BOOLEAN : PSOpen(i, fault)
    \/ \E i \in 1..MaxCalls : Pull(i)
    \/ \E i \in 1..MaxCalls : Close(i)

Spec == Init /\ [][Next]_vars

(***************************************************************************)
(* The pattern compiler on its own: binding_key_to_regex applied to a      *)
(* binding key, and the regex tried on a topic                             *)
(***************************************************************************)
Words == {<<"a">>, <<"b">>, <<"a", "b">>}

Sections == Words \cup {<<"*">>, <<"#">>, <<>>}

RECURSIVE dotted(_)
dotted(parts) ==
    IF Len(parts) = 1 THEN Head(parts)
    ELSE Head(parts) \o <<DOT>> \o dotted(Tail(parts))

ListsOf(S, n) == UNION {[1..k -> S] : k \in 1..n}

InputKeys == {dotted(parts) : parts \in ListsOf(Sections, MaxPatSegs)}

InputTopics == {dotted(parts) : parts \in ListsOf(Words, MaxTopicSegs)}

InitMatch ==
    /\ InitExchange
    /\ lib = "rethinkmq"
    /\ binding_key \in InputKeys
    /\ topic_key \in InputTopics
    /\ regex = <<>>
    /\ matched = FALSE
    /\ phase = "input"

Compile ==
    /\ phase = "input"
    /\ regex' = binding_key_to_regex(binding_key)
    /\ phase' = "compiled"
    /\ UNCHANGED <<mqvars, binding_key, topic_key, matched>>

Match ==
    /\ phase = "compiled"
    /\ matched' = match(topic_key, regex)
    /\ phase' = "matched"
    /\ UNCHANGED <<mqvars, binding_key, topic_key, regex>>

NextMatch == Compile \/ Match

SpecMatch == InitMatch /\ [][NextMatch]_vars

(***************************************************************************)
(* Binding-key semantics of the specification: a literal section equals    *)
(* its segment, '*' covers exactly one segment, '#' zero or more segments  *)
(***************************************************************************)
ValidKey(key) ==
    \A i \in 1..Len(split(key)) :
        LET section == split(key)[i]
        IN  /\ section # <<>>
            /\ \/ section \in {<<"*">>, <<"#">>}
               \/ \A j \in 1..Len(section) : section[j] \in Letters

RECURSIVE Aligns(_, _)
Aligns(P, T) ==
    IF P = <<>> THEN T = <<>>
    ELSE IF Head(P) = <<"#">>
         THEN Aligns(Tail(P), T) \/ (T # <<>> /\ Aligns(P, Tail(T)))
    ELSE IF Head(P) = <<"*">>
         THEN T # <<>> /\ Aligns(Tail(P), Tail(T))
    ELSE T # <<>> /\ Head(T) = Head(P) /\ Aligns(Tail(P), Tail(T))

KeyAccepts(key, topic) == Aligns(split(key), split(topic))

LeadingWildcard(key) == Head(split(key)) \in {<<"*">>, <<"#">>}

(* C5: for every valid binding key and every topic, the compiled regex     *)
(* matches the topic iff the topic's segments align with the key's         *)
(* sections (literal = equal, '*' = one segment, '#' = zero or more).      *)
C5_PatternSemantics ==
    (phase = "matched" /\ ValidKey(binding_key))
        => (matched <=> KeyAccepts(binding_key, topic_key))

(* C6: the regex compiled from a key whose first section is '*' or '#'     *)
(* accepts the topics (none starts with '.') the key aligns with, so       *)
(* #.a accepts the one-segment topic a.                                    *)
C6_LeadingWildcard ==
    (/\ phase = "matched"
     /\ ValidKey(binding_key)
     /\ LeadingWildcard(binding_key)
     /\ KeyAccepts(binding_key, topic_key))
        => matched

(***************************************************************************)
(* Notifications of a stream                                               *)
(***************************************************************************)
StreamIds == 1..Len(streams)

PublishIds == 1..Len(pubs)

(* what the stream got from its feed: pulled already, or still buffered *)
Received(s) == s.yielded \o s.buffer

(* notifications of stream s caused by publish call k *)
Deliveries(s, k) == Count(Received(s), LAMBDA m : log[m.w].pub = k)

(* the queue was consuming with a pattern (filter function) for the topic *)
Subscribed(s, topic) ==
    IF lib = "rethinkmq"
    THEN \E j \in 1..Len(s.patterns) : KeyAccepts(s.patterns[j], topic)
    ELSE topic \in s.filter_func

(* publish call k ran, from start to end, while stream s was open *)
Covers(s, k) == s.state = "open" /\ k > s.openedPub /\ pubs[k].done

SingleWriter == \A j, k \in PublishIds : pubs[j].by = pubs[k].by

Records(topic) == Count(table, LAMBDA d : d.topic = topic)

(* C1: with a single publisher, every publish(T, V) made while a stream    *)
(* bound to a pattern matching T is open makes that stream yield (T, V)    *)
(* exactly once.                                                           *)
C1_RoundTrip ==
    SingleWriter =>
        \A i \in StreamIds : \A k \in PublishIds :
            (Covers(streams[i], k) /\ Subscribed(streams[i], pubs[k].topic))
                => /\ Deliveries(streams[i], k) = 1
                   /\ \A j \in 1..Len(Received(streams[i])) :
                          LET m == Received(streams[i])[j]
                          IN  log[m.w].pub = k =>
                                  /\ m.topic = pubs[k].topic
                                  /\ m.payload = pubs[k].payload

(* C2: a stream never holds or yields a notification whose topic none of   *)
(* the patterns (filter functions) it consumes with accepts.               *)
C2_NoFalsePositives ==
    \A i \in StreamIds :
        \A j \in 1..Len(Received(streams[i])) :
            Subscribed(streams[i], Received(streams[i])[j].topic)

C2_Witness ==
    \E i \in StreamIds : \E k \in PublishIds :
        /\ Covers(streams[i], k)
        /\ ~Subscribed(streams[i], pubs[k].topic)
        /\ Records(pubs[k].topic) >= 1
        /\ Deliveries(streams[i], k) = 0
        /\ \E j \in PublishIds : Deliveries(streams[i], j) >= 1

(* completed publish calls to the topic that began when it had no record *)
FirstWrites(topic) ==
    {k \in PublishIds :
        pubs[k].topic = topic /\ pubs[k].nrec = 0 /\ pubs[k].done}

(* C3 (as claimed): at most one record exists per topic in every reachable *)
(* state, under any interleaving of publishers.                            *)
C3_OneRecordPerTopic == \A t \in Topics : Records(t) <= 1

(* C3 (amended): a topic has exactly one record per completed publish that *)
(* began while it had none; that is at most one record with rethinkmq's    *)
(* upsert, and more than one only after first publishes of different       *)
(* repubsub publishers to the topic overlapped.                            *)
C3_RecordsPerFirstWrite ==
    \A t \in Topics :
        /\ Records(t) = Cardinality(FirstWrites(t))
        /\ lib = "rethinkmq" => Records(t) <= 1
        /\ Records(t) > 1 =>
              \E j, k \in FirstWrites(t) :
                  j < k /\ pubs[j].by # pubs[k].by /\ lib = "repubsub"

C3_Witness ==
    \E t \in Topics :
        /\ Records(t) = 2
        /\ \E k \in PublishIds :
              pubs[k].topic = t /\ pubs[k].nrec = 2 /\ pubs[k].done

(* C4 (as claimed): a publish that starts once its topic has a record      *)
(* delivers exactly one notification to each subscribed queue whose        *)
(* predicate matches, also after a first-write race on the topic.          *)
C4_OnePerLaterPublish ==
    \A i \in StreamIds : \A k \in PublishIds :
        (/\ Covers(streams[i], k)
         /\ pubs[k].nrec >= 1
         /\ filter_clause(streams[i], pubs[k].topic))
            => Deliveries(streams[i], k) = 1

(* C4 (amended): a publish that starts once its topic has records delivers *)
(* to each subscribed queue whose predicate matches one notification per   *)
(* record of the topic: exactly one when the topic has a single record,    *)
(* two after two publishers raced to insert it.                            *)
C4_OnePerRecord ==
    \A i \in StreamIds : \A k \in PublishIds :
        (/\ Covers(streams[i], k)
         /\ pubs[k].nrec >= 1
         /\ filter_clause(streams[i], pubs[k].topic))
            => Deliveries(streams[i], k) = pubs[k].nrec

C4_Witness ==
    \E i \in StreamIds : \E k \in PublishIds :
        /\ Covers(streams[i], k)
        /\ pubs[k].nrec = 2
        /\ filter_clause(streams[i], pubs[k].topic)
        /\ Deliveries(streams[i], k) = 2

HasInvalidKey(s) == \E j \in 1..Len(s.patterns) : ~ValidKey(s.patterns[j])

(* C7: consuming with an invalid binding key (the empty string) fails      *)
(* before any store operation: its change stream is never opened and no    *)
(* table is created for it.                                                *)
C7_InvalidPatternFailsFirst ==
    /\ \A i \in StreamIds :
           HasInvalidKey(streams[i]) => streams[i].state # "open"
    /\ (/\ streams # <<>>
        /\ pubs = <<>>
        /\ \A i \in StreamIds : HasInvalidKey(streams[i]))
           => ~tableExists

(* the topic itself and every topic beneath it *)
Under(name) ==
    {t \in Topics :
        \/ t = name
        \/ Len(t) > Len(name) /\ SubSeq(t, 1, Len(name) + 1) = name \o <<DOT>>}

(* the writes to the given topics since the stream's feed was opened *)
WritesSince(s, T) ==
    SelectSeq([w \in 1..Len(log) |-> w],
              LAMBDA w : w > s.opened /\ log[w].topic \in T)

Writes(s) == [j \in 1..Len(Received(s)) |-> Received(s)[j].w]

(* C8: a queue bound to the Topic object N and a queue bound to the key    *)
(* "N.#" receive the same notifications: the publishes to N and to every   *)
(* descendant of N, and nothing else.                                      *)
C8_TopicBindingIsHash ==
    \A n \in TopicNames :
        /\ \A i \in StreamIds :
              (/\ streams[i].state = "open"
               /\ \/ streams[i].patterns = queue(n)
                  \/ streams[i].patterns = <<dotted(<<n, <<"#">>>>)>>)
                  => Writes(streams[i]) = WritesSince(streams[i], Under(n))
        /\ \A i, j \in StreamIds :
              (/\ streams[i].state = "open"
               /\ streams[j].state = "open"
               /\ streams[i].patterns = queue(n)
               /\ streams[j].patterns = <<dotted(<<n, <<"#">>>>)>>
               /\ streams[i].opened = streams[j].opened)
                  => Received(streams[i]) = Received(streams[j])

C8_Witness ==
    \E i, j \in StreamIds :
        /\ streams[i].queue = "q1" /\ streams[j].queue = "q2"
        /\ streams[i].state = "open" /\ streams[j].state = "open"
        /\ streams[i].patterns = queue(QueueTopic)
        /\ streams[j].patterns = <<dotted(<<QueueTopic, <<"#">>>>)>>
        /\ streams[i].opened = streams[j].opened
        /\ \E m \in 1..Len(Received(streams[i])) :
               Received(streams[i])[m].topic = subtopic(QueueTopic, <<"b">>)

(* C9: a rethinkmq queue bound to several patterns gets each publish       *)
(* exactly once if at least one bound pattern matches its topic, and not   *)
(* at all otherwise.                                                       *)
C9_OneStreamOrFiltered ==
    lib = "rethinkmq" =>
        \A i \in StreamIds : \A k \in PublishIds :
            Covers(streams[i], k) =>
                Deliveries(streams[i], k) =
                    IF Subscribed(streams[i], pubs[k].topic) THEN 1 ELSE 0

(* C10: on one stream, notifications are buffered and yielded in the order *)
(* in which the server applied the writes, whatever pattern or publisher   *)
(* they come from.                                                         *)
C10_PerQueueFIFO ==
    \A i \in StreamIds :
        LET got == Received(streams[i])
        IN  /\ \A j, k \in 1..Len(got) : j < k => got[j].w < got[k].w
            /\ \A j \in 1..Len(got) :
                   /\ got[j].topic = log[got[j].w].topic
                   /\ got[j].payload = log[got[j].w].payload

C10_Witness ==
    \E i \in StreamIds :
        /\ Len(streams[i].yielded) >= 2
        /\ \E j, k \in 1..Len(streams[i].yielded) :
               pubs[log[streams[i].yielded[j].w].pub].by
                   # pubs[log[streams[i].yielded[k].w].pub].by

(***************************************************************************)
(* Stopping and resuming                                                   *)
(***************************************************************************)
(* stream j of the queue was opened when its stream i had been stopped *)
Resumes(i, j) ==
    /\ streams[i].queue = streams[j].queue
    /\ streams[i].state = "closed"
    /\ streams[j].state = "open"
    /\ streams[j].opened >= streams[i].closedAt

(* the completed publish calls whose writes the server applied after write *)
(* number a and not after write number b                                   *)
Between(a, b) ==
    {k \in PublishIds :
        /\ pubs[k].done
        /\ \A w \in 1..Len(log) : log[w].pub = k => (a < w /\ w <= b)}

(* C11: a publish that completes between the moment a queue's stream stops *)
(* and the moment a new stream of the queue is opened is never buffered    *)
(* for or yielded by the new stream, nor by the old one, although its      *)
(* record is stored in the table.                                          *)
C11_NoBacklog ==
    \A i, j \in StreamIds :
        Resumes(i, j) =>
            \A k \in Between(streams[i].closedAt, streams[j].opened) :
                /\ Deliveries(streams[i], k) = 0
                /\ Deliveries(streams[j], k) = 0
                /\ Records(pubs[k].topic) >= 1

C11_Witness ==
    \E i, j \in StreamIds :
        /\ Resumes(i, j)
        /\ \E k \in Between(streams[i].closedAt, streams[j].opened) :
               /\ filter_clause(streams[j], pubs[k].topic)
               /\ Records(pubs[k].topic) >= 1
               /\ Deliveries(streams[j], k) = 0

(* C12: when a stream is closed, the notifications buffered for it and not *)
(* yet pulled are discarded: the closed stream holds none, it never yields *)
(* one of them, and neither does a stream of the queue opened afterwards.  *)
C12_NoDrainOnClose ==
    \A i \in StreamIds :
        streams[i].state = "closed" =>
            /\ streams[i].buffer = <<>>
            /\ \A d \in 1..Len(streams[i].dropped) :
                   /\ streams[i].dropped[d] <= streams[i].closedAt
                   /\ \A y \in 1..Len(streams[i].yielded) :
                          streams[i].yielded[y].w # streams[i].dropped[d]
                   /\ \A j \in StreamIds :
                          Resumes(i, j) =>
                              \A m \in 1..Len(Received(streams[j])) :
                                  Received(streams[j])[m].w
                                      # streams[i].dropped[d]

C12_Witness ==
    \E i, j \in StreamIds :
        /\ Resumes(i, j)
        /\ streams[i].dropped # <<>>
        /\ filter_clause(streams[j], log[streams[i].dropped[1]].topic)
        /\ Records(log[streams[i].dropped[1]].topic) >= 1
        /\ Received(streams[j]) = <<>>

(***************************************************************************)
(* Bindings of a sequence                                                  *)
(***************************************************************************)
IsPrefix(a, b) == Len(a) <= Len(b) /\ SubSeq(b, 1, Len(a)) = a

compiled(patterns) ==
    [j \in 1..Len(patterns) |-> binding_key_to_regex(patterns[j])]

(* the topics the regexes of the given binding keys accept *)
Accepted(patterns) == {t \in Topics : matchers(compiled(patterns), t)}

(* the binding keys of each sequence are those the queue had when          *)
(* consume() was called, and an open sequence has received exactly the     *)
(* writes since it was opened that those keys' regexes accept              *)
CapturedAtConsume ==
    lib = "rethinkmq" =>
        \A i \in StreamIds :
            /\ IsPrefix(streams[i].patterns, bindings[streams[i].queue])
            /\ streams[i].state = "open" =>
                  /\ streams[i].regexes = compiled(streams[i].patterns)
                  /\ Writes(streams[i]) =
                         WritesSince(streams[i],
                                     Accepted(streams[i].patterns))

(* a bind() leaves every sequence as it is; a consume() returns a sequence *)
(* with the queue's binding list of that moment and leaves the earlier     *)
(* sequences as they are                                                   *)
BindFrame ==
    /\ bindings' # bindings => streams' = streams
    /\ Len(streams') > Len(streams) =>
          /\ SubSeq(streams', 1, Len(streams)) = streams
          /\ lib = "rethinkmq" =>
                streams'[Len(streams')].patterns
                    = bindings[streams'[Len(streams')].queue]

(* C13: a bind() made after consume() returned a sequence does not change  *)
(* which topics that sequence yields; only a sequence from a later         *)
(* consume() has the enlarged binding list, and obtaining or opening it    *)
(* leaves the earlier sequence unaffected.                                 *)
C13_BindingsCaptured == []CapturedAtConsume /\ [][BindFrame]_vars

C13_Witness ==
    \E i, j \in StreamIds :
        /\ streams[i].queue = streams[j].queue
        /\ streams[i].state = "open" /\ streams[j].state = "open"
        /\ Len(streams[i].patterns) < Len(streams[j].patterns)
        /\ streams[j].patterns = bindings[streams[j].queue]
        /\ \E m \in 1..Len(Received(streams[i])) :
               Received(streams[i])[m].w > streams[j].opened


(***************************************************************************)
(* Lazy creation of the table                                              *)
(***************************************************************************)
Clients == Publishers \cup Queues

(* table_create requests of c's Exchange that did not raise *)
Successes(c) == Count(requests[c], LAMBDA result : ~reraise(result))

(* c's Exchange has written a document / has run a changefeed query *)
Wrote(c) == \E k \in PublishIds : pubs[k].by = c

Opened(c) ==
    \E i \in StreamIds :
        streams[i].queue = c /\ streams[i].state \in {"open", "closed"}

(* C14 (as claimed): each Exchange sends the table_create request before   *)
(* its first document write or stream open, and exactly once in total over *)
(* any sequence of its publish and subscribe/consume calls.                *)
C14_CreatedOnce ==
    \A c \in Clients :
        /\ Len(requests[c]) <= 1
        /\ (Wrote(c) \/ Opened(c)) => Len(requests[c]) = 1

(* C14 (amended): each Exchange sends table_create in every call it makes  *)
(* until one request has not raised, and in no call after that: exactly    *)
(* one request succeeds (the last one sent), it precedes the Exchange's    *)
(* first document write and stream open, and every earlier request is one  *)
(* that failed and is sent again by the next call.                         *)
C14_CreatedOncePerSuccess ==
    \A c \in Clients :
        /\ Successes(c) = IF asserted[c] THEN 1 ELSE 0
        /\ \A n \in 1..Len(requests[c]) :
               ~reraise(requests[c][n]) => n = Len(requests[c])
        /\ (Wrote(c) \/ Opened(c)) => asserted[c]

C14_Witness ==
    \E c \in Publishers :
        /\ Len(requests[c]) = 2
        /\ Successes(c) = 1
        /\ Cardinality({k \in PublishIds : pubs[k].by = c /\ pubs[k].done})
               >= 2

(* the call of c that sent table_create in this step went on: a publish    *)
(* started its write, consume() returned a sequence, a first pull opened   *)
(* its feed                                                                *)
Proceeds(c) ==
    \/ /\ c \in Publishers
       /\ Len(pubs') = Len(pubs) + 1
       /\ pubs'[Len(pubs')].by = c
    \/ /\ c \in Queues
       /\ lib = "rethinkmq"
       /\ Len(streams') = Len(streams) + 1
       /\ streams'[Len(streams')].queue = c
    \/ /\ c \in Queues
       /\ lib = "repubsub"
       /\ \E i \in StreamIds :
              /\ streams[i].queue = c
              /\ streams[i].state = "created"
              /\ streams'[i].state = "open"

NoEffect ==
    /\ table' = table
    /\ log' = log
    /\ pubs' = pubs
    /\ tableExists' = tableExists
    /\ Len(streams') = Len(streams)
    /\ \A i \in StreamIds :
           /\ streams'[i].state = "open" => streams[i].state = "open"
           /\ streams'[i].buffer = streams[i].buffer

CreationStep(c) ==
    requests'[c] # requests[c] =>
        LET result == requests'[c][Len(requests'[c])]
        IN  IF result \in {"created", "already exists"}
            THEN /\ result = "already exists" <=> tableExists
                 /\ tableExists'
                 /\ asserted'[c]
                 /\ Proceeds(c)
            ELSE /\ ~asserted'[c]
                 /\ NoEffect

(* C15: when Exchanges create the same table one after the other, the one  *)
(* answered 'already exists' goes on like the one that created it; any     *)
(* other failure of the creation ends the call with the error: the failing *)
(* publish writes no document and the failing consume/subscribe opens no   *)
(* feed.                                                                   *)
C15_IdempotentCreate == [][\A c \in Clients : CreationStep(c)]_vars

C15_Witness ==
    \E c, d \in Clients : \E p \in Publishers : \E q \in Queues :
        /\ requests[c] = <<"created">>
        /\ requests[d] = <<"already exists">>
        /\ Wrote(c) \/ Opened(c)
        /\ Wrote(d) \/ Opened(d)
        /\ requests[p] = <<"error">> /\ ~Wrote(p)
        /\ requests[q] = <<"error">> /\ ~Opened(q)
        /\ lib = "repubsub" => \E i \in StreamIds :
                                  streams[i].queue = q
                                      /\ streams[i].state = "raised"

(***************************************************************************)
(* The change marker                                                       *)
(***************************************************************************)
(* this step is a publish of p to topic t, which is stored and holds the   *)
(* payload p publishes                                                     *)
IdenticalPublish(p, t) ==
    /\ Len(pubs') = Len(pubs) + 1
    /\ pubs'[Len(pubs')].by = p
    /\ pubs'[Len(pubs')].topic = t
    /\ Records(t) >= 1
    /\ \A n \in 1..Len(table) :
           table[n].topic = t => table[n].payload = message[p]

StillAChange(p, t) ==
    /\ pubs'[Len(pubs')].done
    /\ Len(table') = Len(table)
    /\ \A n \in 1..Len(table) :
           IF table[n].topic = t
           THEN /\ table'[n].topic = t
                /\ table'[n].payload = table[n].payload
                /\ table'[n].force_change # table[n].force_change
           ELSE table'[n] = table[n]
    /\ \A i \in StreamIds :
           IF streams[i].state = "open" /\ filter_clause(streams[i], t)
           THEN /\ Len(streams'[i].buffer)
                       = Len(streams[i].buffer) + Records(t)
                /\ \A b \in 1..Len(streams'[i].buffer) :
                       IF b <= Len(streams[i].buffer)
                       THEN streams'[i].buffer[b] = streams[i].buffer[b]
                       ELSE /\ streams'[i].buffer[b].topic = t
                            /\ streams'[i].buffer[b].payload = message[p]
                /\ streams'[i].yielded = streams[i].yielded
           ELSE streams'[i] = streams[i]

OwnCopy ==
    \A i \in StreamIds :
        streams[i].state = "open" =>
            Writes(streams[i]) =
                WritesSince(streams[i],
                            {t \in Topics : filter_clause(streams[i], t)})

(* a step without a write (a pull, a close, an open, a failed call)        *)
(* changes at most one stream and no document                              *)
OthersUntouched ==
    (log' = log /\ Len(streams') = Len(streams)) =>
        /\ table' = table
        /\ Cardinality({i \in StreamIds : streams'[i] # streams[i]}) <= 1

(* C17: each open stream whose filter accepts a publish gets its own copy  *)
(* of it, and a queue that pulls from, closes or loses its stream neither  *)
(* removes nor reorders what is buffered for another queue and does not    *)
(* change the table.                                                       *)
C17_IndependentQueues == []OwnCopy /\ [][OthersUntouched]_vars

C17_Witness ==
    \E i, j \in StreamIds : \E k \in PublishIds :
        /\ streams[i].queue # streams[j].queue
        /\ streams[j].state = "open"
        /\ \E y \in 1..Len(streams[i].yielded) :
               log[streams[i].yielded[y].w].pub = k
        /\ \E b \in 1..Len(streams[j].buffer) :
               log[streams[j].buffer[b].w].pub = k


(***************************************************************************)
(* demo.py, tags: topics that are lists of tags                            *)
(***************************************************************************)
(* the tags, in sort order *)
TagOrder == <<"a", "b">>

rank(tag) == CHOOSE n \in 1..Len(TagOrder) : TagOrder[n] = tag

set(seq) == {seq[n] : n \in 1..Len(seq)}

RECURSIVE sorted(_)
sorted(S) ==
    IF S = {} THEN <<>>
    ELSE LET least == CHOOSE x \in S : \A y \in S : rank(x) <= rank(y)
         IN  <<least>> \o sorted(S \ {least})

(* the pieces of a topic, in the order they were drawn or written *)
random_topic == {<<"a">>, <<"b">>, <<"a", "b">>, <<"b", "a">>}

(* tags_publish: topic_tags = sorted(set(random_topic() + random_topic())), *)
(* then exchange.topic(topic_tags).publish(payload)                        *)
tags_publish(p, x, y, fault) ==
    PSPublishUpdate(p, sorted(set(x \o y)), fault)

InitTags == Init /\ lib = "repubsub"

(* publishers that go through tags_publish, and publishers that call       *)
(* exchange.topic(tags).publish(payload) with the list as they have it     *)
NextTags ==
    \/ \E p \in Publishers : \E x, y \in random_topic :
           \E fault \in BOOLEAN : tags_publish(p, x, y, fault)
    \/ \E p \in Publishers : \E tags \in random_topic :
           \E fault \in BOOLEAN : PSPublishUpdate(p, tags, fault)
    \/ \E p \in Publishers : PSPublishInsert(p)

SpecTags == InitTags /\ [][NextTags]_vars

IsSorted(seq) ==
    \A m, n \in 1..Len(seq) : m < n => rank(seq[m]) < rank(seq[n])

(* C18: the documents of tag-list topics have the sorted list as their key *)
(* and publishes of the same tags in another order go to the same          *)
(* document: no two stored keys hold the same set of tags in different     *)
(* orders.                                                                 *)
C18_TagSetCanonical ==
    \A i, j \in 1..Len(table) :
        /\ IsSorted(table[i].topic)
        /\ set(table[i].topic) = set(table[j].topic)
              => table[i].topic = table[j].topic

(***************************************************************************)
(* Consumers that keep pulling                                             *)
(***************************************************************************)
(* receiver.py: `for topic, payload in queue.consume()` pulls again after  *)
(* each message; a publish call that started runs to its end               *)
Fairness ==
    /\ \A i \in 1..MaxCalls : WF_vars(Pull(i))
    /\ \A p \in Publishers : WF_vars(PSPublishInsert(p))

(* the senders and one receiver, q1, which consumes, stops and consumes    *)
(* again; no table_create fails                                            *)
NextLive ==
    \/ \E p \in Publishers : \E t \in SenderTopics[p] :
           MQPublish(p, t, FALSE)
    \/ \E p \in Publishers : \E t \in SenderTopics[p] :
           PSPublishUpdate(p, t, FALSE)
    \/ \E p \in Publishers : PSPublishInsert(p)
    \/ Consume("q1", FALSE)
    \/ Subscribe("q1")
    \/ \E i \in 1..MaxCalls : MQOpen(i)
    \/ \E i \in 1..MaxCalls : PSOpen(i, FALSE)
    \/ \E i \in 1..MaxCalls : Pull(i)
    \/ \E i \in 1..MaxCalls : Close(i)

SpecLive == Init /\ [][NextLive]_vars /\ Fairness

(* write w was applied while stream i was open, and its filter accepts it *)
Owed(i, w) ==
    /\ i \in StreamIds
    /\ w \in 1..Len(log)
    /\ streams[i].state = "open"
    /\ w > streams[i].opened
    /\ filter_clause(streams[i], log[w].topic)

(* stream i has yielded write w, or is not open any more *)
Settled(i, w) ==
    /\ i \in StreamIds
    /\ \/ streams[i].state # "open"
       \/ \E y \in 1..Len(streams[i].yielded) :
              /\ streams[i].yielded[y].w = w
              /\ streams[i].yielded[y].topic = log[w].topic
              /\ streams[i].yielded[y].payload = log[w].payload

(* a pull returns only when a notification is buffered, and then the       *)
(* oldest one                                                              *)
PullsFromBuffer ==
    \A i \in StreamIds :
        streams'[i].yielded # streams[i].yielded =>
            /\ streams[i].state = "open"
            /\ streams[i].buffer # <<>>
            /\ filter_clause(streams[i], Head(streams[i].buffer).topic)
            /\ streams'[i].yielded
                   = Append(streams[i].yielded, Head(streams[i].buffer))
            /\ streams'[i].buffer = Tail(streams[i].buffer)

(* every write owed to a stream was put into its buffer when the server    *)
(* applied it: it is buffered or was yielded                               *)
Buffered ==
    \A i \in StreamIds : \A w \in 1..Len(log) :
        Owed(i, w) => \E m \in 1..Len(Received(streams[i])) :
                          Received(streams[i])[m].w = w

(* all that is owed to stream i is settled *)
Drained(i) == \A w \in 1..Len(log) : Owed(i, w) => Settled(i, w)

(* C19: a pull on a stream without a buffered notification does not return *)
(* (nothing is yielded that was not buffered), and for a consumer that     *)
(* keeps pulling, every write applied while its stream is open that the    *)
(* stream's filter accepts is buffered at once and eventually yielded,     *)
(* unless the stream is closed first: again and again the stream has       *)
(* yielded all that was published to it.                                   *)
C19_DeliveryLiveness ==
    /\ [][PullsFromBuffer]_vars
    /\ []Buffered
    /\ \A i \in 1..MaxCalls : []<>Drained(i)

C19_Witness ==
    \E i \in StreamIds :
        /\ streams[i].state = "open"
        /\ streams[i].buffer = <<>>
        /\ Len(streams[i].yielded) >= 2
        /\ \A y \in 1..Len(streams[i].yielded) :
               Owed(i, streams[i].yielded[y].w)

(* C20: a rethinkmq sequence obtained from a queue without bindings never  *)
(* opens a changefeed: its first pull raises and it receives nothing; a    *)
(* sequence that is or was open has at least one binding key.              *)
C20_NoBindingsNoConsuming ==
    lib = "rethinkmq" =>
        \A i \in StreamIds :
            /\ streams[i].patterns = <<>> =>
                  /\ streams[i].state \in {"created", "raised"}
                  /\ streams[i].regexes = <<>>
                  /\ Received(streams[i]) = <<>>
            /\ streams[i].state = "raised" => streams[i].patterns = <<>>
            /\ streams[i].state \in {"open", "closed"} =>
                  /\ streams[i].patterns # <<>>
                  /\ bindings[streams[i].queue] # <<>>

C20_Witness ==
    \E i, j \in StreamIds :
        /\ lib = "rethinkmq"
        /\ streams[i].queue = streams[j].queue
        /\ streams[i].patterns = <<>>
        /\ streams[i].state = "raised"
        /\ streams[j].state = "open"
        /\ log # <<>>
        /\ Writes(streams[j]) = WritesSince(streams[j], Topics)


(***************************************************************************)
(* The first pull                                                          *)
(***************************************************************************)
(* a sequence that was not pulled from has no feed: it holds nothing; an   *)
(* open one holds only writes applied after its feed was opened            *)
FedWhenOpen ==
    \A i \in StreamIds :
        /\ streams[i].state = "created" => Received(streams[i]) = <<>>
        /\ streams[i].state = "open" =>
              \A m \in 1..Len(Received(streams[i])) :
                  Received(streams[i])[m].w > streams[i].opened

(* the step that returns a sequence leaves it unopened; a sequence becomes *)
(* open in a later step of its own, the first pull, and starts at the      *)
(* writes applied by then; until then every write passes it by             *)
OpenedByFirstPull ==
    \A i \in 1..Len(streams') :
        /\ i \notin StreamIds => streams'[i].state = "created"
        /\ (i \in StreamIds /\ streams[i].state = "created") =>
              \/ streams'[i] = streams[i]
              \/ /\ log' = log
                 /\ streams'[i].state = "raised"
              \/ /\ log' = log
                 /\ streams'[i].state = "open"
                 /\ streams'[i].opened = Len(log)
                 /\ streams'[i].buffer = <<>>
        /\ (i \in StreamIds /\ streams'[i].state = "open") =>
              streams[i].state \in {"created", "open"}

(* C21: the changefeed of a sequence is opened by the first pull on it,    *)
(* not by the consume()/subscribe() call that returns it: a publish that   *)
(* completes after the call and before the first pull is never buffered    *)
(* for or yielded by the sequence, also when its topic matches.            *)
C21_OpenedByFirstPull == []FedWhenOpen /\ [][OpenedByFirstPull]_vars

(* q1's consume() created the table, so it returned its first sequence     *)
(* before any publish; the sequence was pulled from after a publish of a   *)
(* matching topic, and did not get it                                      *)
C21_Witness ==
    \E i \in StreamIds : \E k \in PublishIds :
        /\ lib = "rethinkmq"
        /\ requests[streams[i].queue] = <<"created">>
        /\ \A j \in 1..(i - 1) : streams[j].queue # streams[i].queue
        /\ streams[i].state = "open"
        /\ k <= streams[i].openedPub
        /\ filter_clause(streams[i], pubs[k].topic)
        /\ Deliveries(streams[i], k) = 0
        /\ \E n \in PublishIds : Deliveries(streams[i], n) = 1

(***************************************************************************)
(* Update, then insert                                                     *)
(***************************************************************************)
(* a publish has its insert ahead only if its update replaced nothing, and *)
(* a topic has at most one document per publisher whose update ran while   *)
(* the topic had none                                                      *)
InsertOnlyAfterEmptyUpdate ==
    /\ \A p \in Publishers :
           pubpc[p] # Idle =>
               /\ pubpc[p] \in PublishIds
               /\ pubs[pubpc[p]].by = p
               /\ pubs[pubpc[p]].nrec = 0
               /\ ~pubs[pubpc[p]].done
    /\ \A k \in PublishIds :
           pubs[k].nrec >= 1 => pubs[k].done
    /\ \A t \in Topics :
           /\ Records(t) <=
                  Cardinality({pubs[k].by : k \in
                      {n \in PublishIds :
                          pubs[n].topic = t /\ pubs[n].nrec = 0}})
           /\ \A j, k \in FirstWrites(t) : pubs[j].by = pubs[k].by => j = k

(* the table grows by one document at a time, in the insert step of a      *)
(* publish whose update ran while the topic had no document; a publish to  *)
(* a topic that has documents replaces them and adds none                  *)
GrowsByInsert ==
    /\ Len(table') >= Len(table)
    /\ Len(table') > Len(table) =>
          /\ Len(table') = Len(table) + 1
          /\ SubSeq(table', 1, Len(table)) = table
          /\ lib = "repubsub" =>
                \E p \in Publishers :
                    /\ pubpc[p] # Idle
                    /\ pubpc'[p] = Idle
                    /\ pubs[pubpc[p]].nrec = 0
                    /\ table'[Len(table')].topic = pubs[pubpc[p]].topic
    /\ \A p \in Publishers : \A t \in Topics :
           (/\ Len(pubs') = Len(pubs) + 1
            /\ pubs'[Len(pubs')].by = p
            /\ pubs'[Len(pubs')].topic = t
            /\ Records(t) >= 1)
               => /\ Len(table') = Len(table)
                  /\ pubpc'[p] = Idle

(* C22: a repubsub publish whose update replaced a document never inserts; *)
(* the documents of a topic grow only by the inserts of publishes whose    *)
(* update ran while the topic had none, so a topic has at most as many     *)
(* documents as publishers whose first publishes to it overlapped.         *)
C22_InsertOnlyWhenNoneReplaced ==
    []InsertOnlyAfterEmptyUpdate /\ [][GrowsByInsert]_vars

C22_Witness ==
    \E t \in Topics : \E j, k, n \in PublishIds :
        /\ lib = "repubsub"
        /\ j < k /\ k < n
        /\ FirstWrites(t) = {j, k}
        /\ pubs[n].topic = t /\ pubs[n].nrec = 2 /\ pubs[n].done
        /\ pubs[n].by \in {pubs[j].by, pubs[k].by}
        /\ Records(t) = 2
        /\ \A p \in Publishers : pubpc[p] = Idle

(***************************************************************************)
(* Exchange._asserted                                                      *)
(***************************************************************************)
(* the flag is set exactly when the Exchange's last table_create did not   *)
(* raise, and an Exchange that wrote or returned a sequence (rethinkmq) or *)
(* opened a feed has it set                                                *)
AssertedAfterSuccess ==
    \A c \in Clients :
        /\ asserted[c] <=>
              /\ requests[c] # <<>>
              /\ requests[c][Len(requests[c])]
                     \in {"created", "already exists"}
        /\ asserted[c] => tableExists
        /\ (Wrote(c) \/ Opened(c)) => asserted[c]
        /\ (lib = "rethinkmq" /\ \E i \in StreamIds : streams[i].queue = c)
               => asserted[c]

(* the flag is never reset; it is set in the step whose table_create does  *)
(* not raise; a call of an Exchange whose flag is not set sends            *)
(* table_create before it goes on, and one whose flag is set sends none    *)
AssertedStep ==
    \A c \in Clients :
        /\ asserted[c] => (asserted'[c] /\ requests'[c] = requests[c])
        /\ (~asserted[c] /\ asserted'[c]) =>
               /\ Len(requests'[c]) = Len(requests[c]) + 1
               /\ ~reraise(requests'[c][Len(requests'[c])])
        /\ (~asserted[c] /\ requests'[c] # requests[c]
              /\ reraise(requests'[c][Len(requests'[c])]))
               => ~asserted'[c]
        /\ Proceeds(c) =>
               /\ asserted'[c]
               /\ ~asserted[c] => requests'[c] # requests[c]

(* C23: _asserted becomes true only when table_create succeeded or         *)
(* answered 'already exists', and is never reset; after another failure it *)
(* stays false, so the Exchange's next publish or consume/subscribe sends  *)
(* table_create again instead of skipping it.                              *)
C23_AssertedOnlyAfterSuccess == []AssertedAfterSuccess /\ [][AssertedStep]_vars

C23_Witness ==
    \E q \in Queues : \E i \in StreamIds :
        /\ Len(requests[q]) = 2
        /\ reraise(requests[q][1])
        /\ ~reraise(requests[q][2])
        /\ asserted[q]
        /\ streams[i].queue = q
        /\ streams[i].state = "open"
        /\ Received(streams[i]) # <<>>


====
